---- MODULE Spec2Model ----
(***************************************************************************)
(* Model of the pointage-api server (src/db.js): the session lifecycle     *)
(* engine (calendar generation, idempotent session inserts, session status *)
(* transitions with cascading attendance deletion), the attendance ledger  *)
(* and the access guards, over a relational store.                         *)
(*                                                                         *)
(* Every route is one action that runs its whole middleware chain and      *)
(* handler.  A request is read field by field, as the code reads it: a     *)
(* field the code never reached before answering is recorded as Unread.    *)
(***************************************************************************)
EXTENDS Integers, Sequences, FiniteSets, TLC

VARIABLES
    classes,        \* table classes: id -> [user_id, weekday]
    class_users,    \* table class_users: set of <<class_id, user_id>>
    students,       \* table students: set of [id, class_id, weekday]
    sessions,       \* table sessions: set of [id, class_id, date, status, note]
    attendances,    \* table attendances: set of [student_id, session_id, status, comment]
    session_seq,    \* last value handed out by the sessions id sequence
    student_seq,    \* last value handed out by the students id sequence
    now,            \* the clock: <<UTC year, UTC month 1..12>>
    ticks,          \* months elapsed since the initial state
    nreq,           \* requests handled since the initial state
    last,           \* the last request, as far as it was read, and its response
    prev,           \* what the request before it was: [op, cls, sy, iso, code]
    inflight,       \* requests being served statement by statement: slot -> [pc, req, id, n]
    calc            \* a call of a date or weekday function: [fn, arguments, result]

store == <<classes, class_users, students, sessions, attendances, session_seq, student_seq>>
vars == <<classes, class_users, students, sessions, attendances, session_seq, student_seq,
          now, ticks, nreq, last, prev, inflight, calc>>

(***************************************************************************)
(* Bounds of the model.                                                    *)
(***************************************************************************)
MaxReq == 2
MaxTicks == 1
MaxStudents == 3

(***************************************************************************)
(* Values.                                                                 *)
(***************************************************************************)
NULL == 0           \* SQL NULL / JS null, undefined (ids and weekdays are >= 1)
NaN == -1           \* Number(x) of a non-numeric x
Unread == "-"       \* a request field the code did not read before answering
NoNote == "NULL"    \* a NULL note
NullComment == <<"NULL">>

SessionStatuses == {"scheduled", "cancelled", "holiday", "vacation", "extra"}
AttendanceStatuses == {"present", "absent", "excused"}

(***************************************************************************)
(* Dates.  A JS Date built by utcNoon is a whole number of days since      *)
(* 1970-01-01 plus twelve hours; the model keeps the day number.  A        *)
(* 'YYYY-MM-DD' string is the number YYYYMMDD (zero padding makes the      *)
(* string order the numeric order).                                        *)
(***************************************************************************)
utcNoon(y, m0, d) ==
    LET m  == m0 + 1
        yy == IF m <= 2 THEN y - 1 ELSE y
        era == yy \div 400
        yoe == yy - era * 400
        mp == (m + 9) % 12
        doy == (153 * mp + 2) \div 5 + d - 1
        doe == yoe * 365 + yoe \div 4 - yoe \div 100 + doy
    IN  era * 146097 + doe - 719468

civil(day) ==
    LET z == day + 719468
        era == z \div 146097
        doe == z - era * 146097
        yoe == (doe - doe \div 1460 + doe \div 36524 - doe \div 146096) \div 365
        doy == doe - (365 * yoe + yoe \div 4 - yoe \div 100)
        mp == (5 * doy + 2) \div 153
        d == doy - (153 * mp + 2) \div 5 + 1
        m == IF mp < 10 THEN mp + 3 ELSE mp - 9
        y == yoe + era * 400 + (IF m <= 2 THEN 1 ELSE 0)
    IN  [y |-> y, m |-> m, d |-> d]

getUTCDay(day) == (day + 4) % 7      \* 1970-01-01 was a Thursday (JS day 4)

ymdUTC(day) ==
    LET c == civil(day) IN c.y * 10000 + c.m * 100 + c.d

\* the store's cast 'YYYY-MM-DD'::date
toDate(ymd) == utcNoon(ymd \div 10000, ((ymd \div 100) % 100) - 1, ymd % 100)

\* the store's to_char(date, 'YYYY-MM-DD')
to_char(day) == ymdUTC(day)

schoolStartYear(t) == IF t[2] >= 9 THEN t[1] ELSE t[1] - 1

getActiveSchoolYear(t) ==
    LET sy == schoolStartYear(t)
    IN  [start |-> utcNoon(sy, 8, 1), end |-> utcNoon(sy + 1, 6, 14)]


(***************************************************************************)
(* Weekdays.  A weekday as a request carries it: a JSON number, a JSON     *)
(* string, or nothing.                                                     *)
(***************************************************************************)
WdNum(n) == [k |-> "num", n |-> n, s |-> ""]
WdStr(s) == [k |-> "str", n |-> 0, s |-> s]
WdAbsent == [k |-> "absent", n |-> 0, s |-> ""]
WdUnread == [k |-> Unread, n |-> 0, s |-> ""]

ISO_FROM_FR ==
    [d \in {"dimanche", "lundi", "mardi", "mercredi", "jeudi", "vendredi", "samedi"} |->
        CASE d = "dimanche" -> 7
          [] d = "lundi" -> 1
          [] d = "mardi" -> 2
          [] d = "mercredi" -> 3
          [] d = "jeudi" -> 4
          [] d = "vendredi" -> 5
          [] d = "samedi" -> 6]

\* String.prototype.toLowerCase on the strings the model sends
toLowerCase(s) ==
    CASE s = "Lundi" -> "lundi"
      [] s = "MERCREDI" -> "mercredi"
      [] s = "Dimanche" -> "dimanche"
      [] OTHER -> s

normalizeToIsoWeekday(input) ==
    IF input.k = "str"
    THEN IF toLowerCase(input.s) \in DOMAIN ISO_FROM_FR
         THEN ISO_FROM_FR[toLowerCase(input.s)] ELSE NULL
    ELSE IF input.k = "num"
    THEN IF input.n >= 1 /\ input.n <= 7 THEN input.n
         ELSE IF input.n >= 0 /\ input.n <= 6 THEN input.n + 1
         ELSE NULL
    ELSE NULL

\* the weekday column of a row, read back as a JS value
WdOfColumn(w) == IF w = NULL THEN WdAbsent ELSE WdNum(w)

jsDowFromIso(iso) == iso % 7

\* the function with the difference taken the other way round
firstOnOrAfterSlip(startUtc, jsTarget) ==
    LET delta == (getUTCDay(startUtc) - jsTarget + 7) % 7
    IN  startUtc + delta

firstOnOrAfter(startUtc, jsTarget) ==
    LET delta == (jsTarget - getUTCDay(startUtc) + 7) % 7
    IN  startUtc + delta

\* the loop stepping a fortnight
RECURSIVE enumerateFromSkipping(_, _)
enumerateFromSkipping(d, e) ==
    IF d <= e THEN <<ymdUTC(d)>> \o enumerateFromSkipping(d + 14, e) ELSE <<>>

RECURSIVE enumerateFrom(_, _)
enumerateFrom(d, e) ==
    IF d <= e THEN <<ymdUTC(d)>> \o enumerateFrom(d + 7, e) ELSE <<>>

enumerateDatesByWeekday(startUtc, endUtc, isoDow) ==
    LET jsTarget == jsDowFromIso(isoDow)
        cs == civil(startUtc)
        ce == civil(endUtc)
        s == utcNoon(cs.y, cs.m - 1, cs.d)
        e == utcNoon(ce.y, ce.m - 1, ce.d)
    IN  enumerateFrom(firstOnOrAfter(s, jsTarget), e)

(***************************************************************************)
(* Subjects.  The users table is fixed; a bearer token either is absent,   *)
(* fails verification, or carries the id and role of a user.               *)
(***************************************************************************)
users == (1 :> "prof") @@ (2 :> "prof") @@ (3 :> "admin") @@ (4 :> "surveillant")

BadToken == 9

\* authenticateToken: 0 is next(), otherwise the status sent
authenticateToken(cred) ==
    IF cred = NULL THEN 401
    ELSE IF cred \notin DOMAIN users THEN 403
    ELSE 0

authorizeRoles(roles, cred) ==
    IF users[cred] \notin roles THEN 403 ELSE 0

\* authenticateToken, then authorizeRoles('prof', 'admin')
ProfOrAdmin(cred) ==
    IF authenticateToken(cred) # 0 THEN authenticateToken(cred)
    ELSE authorizeRoles({"prof", "admin"}, cred)

(***************************************************************************)
(* Request identifiers: a URL or body value that is a numeral, some other  *)
(* text, or missing.                                                       *)
(***************************************************************************)
IdInt(n) == [k |-> "int", v |-> n]
IdText == [k |-> "text", v |-> 0]
Number(raw) == IF raw.k = "int" THEN raw.v ELSE NaN
IsInteger(x) == x # NaN

(***************************************************************************)
(* Access guards.  Each returns [code, id]: code 0 is next(); id is what   *)
(* the guard leaves in req.params.id for the handler.                      *)
(***************************************************************************)
ManagesClass(classId, userId) ==
    /\ classId \in DOMAIN classes
    /\ \/ classes[classId].user_id = userId
       \/ <<classId, userId>> \in class_users

\* ensureClassAccess without the class_users side of its query
ensureClassAccessOwnerOnly(cred, classId) ==
    IF users[cred] = "admin" THEN 0
    ELSE IF ~IsInteger(classId) THEN 400
    ELSE IF ~(classId \in DOMAIN classes /\ classes[classId].user_id = cred) THEN 403
    ELSE 0

ensureClassAccess(cred, classId) ==
    IF users[cred] = "admin" THEN 0
    ELSE IF ~IsInteger(classId) THEN 400
    ELSE IF ~ManagesClass(classId, cred) THEN 403
    ELSE 0

SessionRows(sessionId) == {s \in sessions : s.id = sessionId}

ensureSessionAccess(cred, rawId) ==
    IF users[cred] = "admin" THEN [code |-> 0, id |-> Number(rawId)]
    ELSE IF ~IsInteger(Number(rawId)) THEN [code |-> 400, id |-> Number(rawId)]
    ELSE IF SessionRows(Number(rawId)) = {} THEN [code |-> 404, id |-> Number(rawId)]
    ELSE LET class_id == (CHOOSE s \in SessionRows(Number(rawId)) : TRUE).class_id
         IN  [code |-> ensureClassAccess(cred, class_id), id |-> class_id]


(***************************************************************************)
(* Store statements, as functions of the tables they read and write.       *)
(***************************************************************************)
SessionRow(id, classId, date, status, note) ==
    [id |-> id, class_id |-> classId, date |-> date, status |-> status, note |-> note]

\* the insertion with ON CONFLICT ... DO UPDATE in place of DO NOTHING
RECURSIVE InsertSessionRowsResetting(_, _, _, _, _, _)
InsertSessionRowsResetting(tbl, seq, classId, dates, status, note) ==
    IF dates = <<>> THEN [rows |-> tbl, seq |-> seq]
    ELSE LET d == toDate(Head(dates))
             hit == {s \in tbl : s.class_id = classId /\ s.date = d}
             put == IF hit = {} THEN {SessionRow(seq + 1, classId, d, status, note)}
                    ELSE {[s EXCEPT !.status = status, !.note = note] : s \in hit}
         IN  InsertSessionRowsResetting((tbl \ hit) \cup put, seq + 1, classId,
                                        Tail(dates), status, note)

\* the insertion without its ON CONFLICT clause taking effect
RECURSIVE InsertSessionRowsBlindly(_, _, _, _, _, _)
InsertSessionRowsBlindly(tbl, seq, classId, dates, status, note) ==
    IF dates = <<>> THEN [rows |-> tbl, seq |-> seq]
    ELSE LET row == SessionRow(seq + 1, classId, toDate(Head(dates)), status, note)
         IN  InsertSessionRowsBlindly(tbl \cup {row}, seq + 1, classId, Tail(dates),
                                      status, note)

\* INSERT INTO sessions (class_id, date[, status, note]) ... ON CONFLICT (class_id, date)
\* DO NOTHING, row by row: the id sequence advances for every proposed row.
InsertSessionRows(tbl, seq, classId, dates, status, note) ==
    LET taken == {s.date : s \in {q \in tbl : q.class_id = classId}}
        inserted == {i \in DOMAIN dates :
                        /\ toDate(dates[i]) \notin taken
                        /\ \A j \in 1..(i - 1) : dates[j] # dates[i]}
    IN  [rows |-> tbl \cup {SessionRow(seq + i, classId, toDate(dates[i]), status, note) :
                                i \in inserted},
         seq |-> seq + Len(dates)]

\* the cast $2::date[] takes a date spelled with a year of the common era;
\* ymdUTC spells an earlier year with a leading minus sign, which it refuses
castsToDate(ymd) == ymd \div 10000 >= 1

castsToDates(dates) == \A i \in DOMAIN dates : castsToDate(dates[i])

\* the insertion as a plain INSERT: the unique index on (class_id, date)
\* raises when a proposed row meets an existing one
InsertSessionsRaising(tbl, seq, classId, dates) ==
    IF ~IsInteger(classId) \/ ~castsToDates(dates)
    THEN [ok |-> FALSE, rows |-> tbl, seq |-> seq]
    ELSE LET r == InsertSessionRows(tbl, seq, classId, dates, "scheduled", NoNote)
             duplicate == \E i \in DOMAIN dates : \E s \in tbl :
                              s.class_id = classId /\ s.date = toDate(dates[i])
         IN  IF duplicate \/ (dates # <<>> /\ classId \notin DOMAIN classes)
             THEN [ok |-> FALSE, rows |-> tbl, seq |-> r.seq]
             ELSE [ok |-> TRUE, rows |-> r.rows, seq |-> r.seq]

\* the statement of ensureSessionsForWeekday, patchClassWeekdayHandler,
\* generate-sessions and POST /sessions; ok is FALSE when the store raises
\* (class_id is no integer, a date does not cast, or class_id references no
\* class)
InsertSessions(tbl, seq, classId, dates) ==
    IF ~IsInteger(classId) \/ ~castsToDates(dates)
    THEN [ok |-> FALSE, rows |-> tbl, seq |-> seq]
    ELSE LET r == InsertSessionRows(tbl, seq, classId, dates, "scheduled", NoNote)
         IN  IF dates # <<>> /\ classId \notin DOMAIN classes
             THEN [ok |-> FALSE, rows |-> tbl, seq |-> r.seq]
             ELSE [ok |-> TRUE, rows |-> r.rows, seq |-> r.seq]

\* the extra insertion with ON CONFLICT ... DO UPDATE in place of DO NOTHING
InsertExtraSessionOverwriting(tbl, seq, classId, date, note) ==
    IF ~IsInteger(classId) THEN [ok |-> FALSE, rows |-> tbl, seq |-> seq, returned |-> {}]
    ELSE IF classId \notin DOMAIN classes
    THEN [ok |-> FALSE, rows |-> tbl, seq |-> seq + 1, returned |-> {}]
    ELSE LET hit == {s \in tbl : s.class_id = classId /\ s.date = toDate(date)}
             put == IF hit = {}
                    THEN {SessionRow(seq + 1, classId, toDate(date), "extra", note)}
                    ELSE {[s EXCEPT !.status = "extra", !.note = note] : s \in hit}
         IN  [ok |-> TRUE, rows |-> (tbl \ hit) \cup put, seq |-> seq + 1, returned |-> put]

\* the statement of POST /classes/:classId/sessions/extra; returned is the
\* RETURNING row set
InsertExtraSession(tbl, seq, classId, date, note) ==
    IF ~IsInteger(classId) THEN [ok |-> FALSE, rows |-> tbl, seq |-> seq, returned |-> {}]
    ELSE LET r == InsertSessionRows(tbl, seq, classId, <<date>>, "extra", note)
         IN  IF classId \notin DOMAIN classes
             THEN [ok |-> FALSE, rows |-> tbl, seq |-> r.seq, returned |-> {}]
             ELSE [ok |-> TRUE, rows |-> r.rows, seq |-> r.seq, returned |-> r.rows \ tbl]

\* SELECT COUNT(*)::int AS n FROM attendances WHERE session_id=$1
CountAttendances(att, id) == Cardinality({a \in att : a.session_id = id})

\* DELETE FROM attendances WHERE session_id=$1
\* the DELETE matching no row
DeleteAttendancesNone(att, id) == att

DeleteAttendances(att, id) == {a \in att : a.session_id # id}

\* UPDATE sessions SET status=$1, note=$2 WHERE id=$3
UpdateSessionStatus(tbl, id, status, note) ==
    {IF s.id = id THEN [s EXCEPT !.status = status, !.note = note] ELSE s : s \in tbl}

\* the upsert with ON CONFLICT ... DO NOTHING in place of DO UPDATE
UpsertAttendanceKeeping(att, student_id, session_id, status, comment) ==
    IF \E a \in att : a.student_id = student_id /\ a.session_id = session_id THEN att
    ELSE att \cup {[student_id |-> student_id, session_id |-> session_id,
                    status |-> status, comment |-> comment]}

\* INSERT INTO attendances ... ON CONFLICT (student_id, session_id) DO UPDATE
UpsertAttendance(att, student_id, session_id, status, comment) ==
    {a \in att : ~(a.student_id = student_id /\ a.session_id = session_id)}
        \cup {[student_id |-> student_id, session_id |-> session_id,
               status |-> status, comment |-> comment]}

\* rows of one date, in the order of their ids
RECURSIVE OrderTies(_)
OrderTies(rows) ==
    IF rows = {} THEN <<>>
    ELSE LET first == CHOOSE r \in rows : \A q \in rows : r.id <= q.id
         IN  <<first>> \o OrderTies(rows \ {first})

\* rows dated lo..hi in ascending order of date, by halving the range
RECURSIVE OrderBetween(_, _, _)
OrderBetween(rows, lo, hi) ==
    IF rows = {} THEN <<>>
    ELSE IF lo = hi THEN OrderTies(rows)
    ELSE LET mid == (lo + hi) \div 2
         IN  OrderBetween({r \in rows : r.date <= mid}, lo, mid)
                 \o OrderBetween({r \in rows : r.date > mid}, mid + 1, hi)

\* SELECT ... FROM sessions WHERE class_id=$1 ORDER BY date
OrderByDate(rows) ==
    IF rows = {} THEN <<>>
    ELSE LET D == {r.date : r \in rows}
             lo == CHOOSE d \in D : \A e \in D : d <= e
             hi == CHOOSE d \in D : \A e \in D : e <= d
         IN  OrderBetween(rows, lo, hi)

ListSessions(tbl, classId) ==
    LET rows == {s \in tbl : s.class_id = classId}
        ordered == OrderByDate(rows)
    IN  [i \in 1..Len(ordered) |->
            [id |-> ordered[i].id, date |-> to_char(ordered[i].date),
             status |-> ordered[i].status, note |-> ordered[i].note]]

(***************************************************************************)
(* String(comment).trim() on comments spelled as sequences of characters.  *)
(***************************************************************************)
RECURSIVE trimStart(_)
trimStart(c) == IF c # <<>> /\ Head(c) = " " THEN trimStart(Tail(c)) ELSE c

RECURSIVE trimEnd(_)
trimEnd(c) ==
    IF c # <<>> /\ c[Len(c)] = " " THEN trimEnd(SubSeq(c, 1, Len(c) - 1)) ELSE c

trim(c) == trimEnd(trimStart(c))

(***************************************************************************)
(* Requests and responses.  last holds the fields of the request that      *)
(* decided its outcome (the others stay Unread) and the response.  A       *)
(* request refused before any writing statement leaves the store as it     *)
(* found it, so whatever can follow it can follow the state before it: the *)
(* model serves no further request after one.                              *)
(***************************************************************************)
UnreadInt == NaN - 1

NoRequest ==
    [op |-> "none", cred |-> NULL, cls |-> UnreadInt, sid |-> UnreadInt, stu |-> UnreadInt,
     status |-> Unread, note |-> Unread, force |-> FALSE, comment |-> <<Unread>>,
     wd |-> WdUnread, startYear |-> UnreadInt, sy |-> UnreadInt, iso |-> NULL,
     date |-> UnreadInt, dates |-> <<>>,
     code |-> 0, n |-> 0, wrote |-> FALSE, body |-> <<>>]

Request(op, cred) == [NoRequest EXCEPT !.op = op, !.cred = cred]

Summary(req) ==
    [op |-> req.op, cls |-> req.cls, sy |-> req.sy, iso |-> req.iso, code |-> req.code]

Listening == nreq < MaxReq /\ (last.op = "none" \/ last.wrote)

\* the response is sent before any writing statement ran
Refuse(req, code) ==
    /\ last' = [req EXCEPT !.code = code]
    /\ nreq' = nreq + 1
    /\ prev' = Summary(last)
    /\ UNCHANGED <<store, now, ticks, inflight, calc>>

\* the response after the writing statements ran
Answered(req, code) ==
    /\ last' = [req EXCEPT !.code = code, !.wrote = TRUE]
    /\ nreq' = nreq + 1
    /\ prev' = Summary(last)
    /\ UNCHANGED <<now, ticks, inflight, calc>>

MaxInflight == 2
Slots == 1..MaxInflight
IdleSlot == [pc |-> "idle", req |-> NoRequest, id |-> UnreadInt, n |-> 0, newDates |-> <<>>]

\* no function called yet
NoCall == [fn |-> "none", start |-> 0, end |-> 0, iso |-> 0, wd |-> WdUnread,
           dates |-> <<>>, n |-> 0]

(***************************************************************************)
(* What requests carry.                                                    *)
(***************************************************************************)
MaxSessionIdInput == 4
MaxClassIdInput == 3

CredInputs == {NULL, BadToken} \cup DOMAIN users
ClassIdInputs == {IdInt(c) : c \in 1..MaxClassIdInput} \cup {IdText}
SessionIdInputs == {IdInt(x) : x \in 1..MaxSessionIdInput} \cup {IdText}
StudentIdInputs == {IdInt(x) : x \in 1..MaxStudents} \cup {IdText}
SessionStatusInputs == SessionStatuses \cup {"reporte"}
AttendanceStatusInputs == AttendanceStatuses \cup {"retard"}
NoteInputs == {NoNote, "greve"}
CommentInputs == {NullComment, <<>>, <<" ">>, <<" ", "m">>}
WeekdayInputs == {WdAbsent, WdNum(3), WdStr("Lundi"), WdNum(8)}
StartYearInputs == {NULL, 2025, -3}
DateInputs == {20240904, 20240906, NaN}      \* NaN: not of the form YYYY-MM-DD
DatesInputs == {<<>>, <<20240906>>, <<20240904, 20240913, 20240913>>}

(***************************************************************************)
(* PATCH /sessions/:id/status                                              *)
(***************************************************************************)
statusAllowed == {"scheduled", "cancelled", "holiday", "vacation", "extra"}
statusNonPointables == {"cancelled", "holiday", "vacation"}

\* the writing statements of the handler; id is Number(req.params.id)
patchStatusWrite(req, id, n) ==
    /\ attendances' = IF req.status \in statusNonPointables /\ n > 0 /\ req.force
                      THEN DeleteAttendances(attendances, id)
                      ELSE attendances
    /\ sessions' = UpdateSessionStatus(sessions, id, req.status, req.note)
    /\ Answered(req, 200)
    /\ UNCHANGED <<classes, class_users, students, session_seq, student_seq>>

\* the handler, once the guards have passed
patchStatusHandler(r1, id) ==
    \E status \in SessionStatusInputs :
      IF status \notin statusAllowed THEN Refuse([r1 EXCEPT !.status = status], 400)
      ELSE IF ~IsInteger(id) THEN Refuse([r1 EXCEPT !.status = status], 500)
      ELSE \E note \in NoteInputs :
             LET r2 == [r1 EXCEPT !.status = status, !.note = note]
                 n == CountAttendances(attendances, id)
             IN  IF status \in statusNonPointables
                 THEN \E force \in BOOLEAN :
                        IF n > 0 /\ ~force THEN Refuse([r2 EXCEPT !.n = n], 409)
                        ELSE patchStatusWrite([r2 EXCEPT !.force = force], id, n)
                 ELSE patchStatusWrite(r2, id, n)

PatchSessionStatus ==
    /\ Listening
    /\ \E cred \in CredInputs, raw \in SessionIdInputs :
         LET r1 == [Request("status", cred) EXCEPT !.sid = Number(raw)]
         IN  IF ProfOrAdmin(cred) # 0 THEN Refuse(r1, ProfOrAdmin(cred))
             ELSE LET g == ensureSessionAccess(cred, raw)
                  IN  IF g.code # 0 THEN Refuse(r1, g.code)
                      ELSE patchStatusHandler(r1, g.id)

(***************************************************************************)
(* POST /attendance                                                        *)
(***************************************************************************)
\* the allow-list with a status too many
attendanceAllowedWide == {"present", "absent", "excused", "retard"}
attendanceAllowed == {"present", "absent", "excused"}
\* the set with one status forgotten
attendanceNonPointablesShort == {"cancelled", "holiday"}
attendanceNonPointables == {"cancelled", "holiday", "vacation"}

\* the test without its trim side: !comment
commentMissingUntrimmed(comment) == comment = NullComment \/ comment = <<>>

\* !comment || !String(comment).trim()
commentMissing(comment) == comment = NullComment \/ comment = <<>> \/ trim(comment) = <<>>

\* the statements with the upsert issued before the check of the session's
\* status
postAttendanceStoreUpsertFirst(req, comment) ==
    LET student_id == req.stu
        session_id == req.sid
        sRows == SessionRows(session_id)
    IN  IF ~\E st \in students : st.id = student_id THEN Refuse(req, 400)
        ELSE IF sRows = {} THEN Refuse(req, 400)
        ELSE /\ attendances' = UpsertAttendance(attendances, student_id, session_id,
                                                req.status, comment)
             /\ Answered(req, IF (CHOOSE r \in sRows : TRUE).status
                                     \in attendanceNonPointables
                              THEN 409 ELSE 200)
             /\ UNCHANGED <<classes, class_users, students, sessions, session_seq,
                            student_seq>>

\* the checks and the statement that follow the validation of the body
postAttendanceStore(req, comment) ==
    LET student_id == req.stu
        session_id == req.sid
        sRows == SessionRows(session_id)
    IN  IF ~\E st \in students : st.id = student_id THEN Refuse(req, 400)
        ELSE IF sRows = {} THEN Refuse(req, 400)
        ELSE IF (CHOOSE r \in sRows : TRUE).status \in attendanceNonPointables
             THEN Refuse(req, 409)
        ELSE /\ attendances' = UpsertAttendance(attendances, student_id, session_id,
                                                req.status, comment)
             /\ Answered(req, 200)
             /\ UNCHANGED <<classes, class_users, students, sessions, session_seq,
                            student_seq>>

\* the handler, once the guards have passed
postAttendanceHandler(r1) ==
    IF ~IsInteger(r1.sid) THEN Refuse(r1, 400)
    ELSE \E stu \in StudentIdInputs :
      IF ~IsInteger(Number(stu)) THEN Refuse([r1 EXCEPT !.stu = Number(stu)], 400)
      ELSE \E status \in AttendanceStatusInputs :
             LET r2 == [r1 EXCEPT !.stu = Number(stu), !.status = status]
             IN  IF status \notin attendanceAllowed THEN Refuse(r2, 400)
                 ELSE \E comment \in CommentInputs :
                        IF status = "excused"
                        THEN IF commentMissing(comment)
                             THEN Refuse([r2 EXCEPT !.comment = comment], 400)
                             ELSE postAttendanceStore([r2 EXCEPT !.comment = comment],
                                                      trim(comment))
                        ELSE postAttendanceStore([r2 EXCEPT !.comment = comment],
                                                 NullComment)

PostAttendance ==
    /\ Listening
    /\ \E cred \in CredInputs, raw \in SessionIdInputs :
         LET r1 == [Request("attendance", cred) EXCEPT !.sid = Number(raw)]
         IN  IF ProfOrAdmin(cred) # 0 THEN Refuse(r1, ProfOrAdmin(cred))
             ELSE LET g == ensureSessionAccess(cred, raw)
                  IN  IF g.code # 0 THEN Refuse(r1, g.code)
                      ELSE postAttendanceHandler(r1)

(***************************************************************************)
(* POST /classes/:classId/sessions/extra                                   *)
(***************************************************************************)
postExtraHandler(r1) ==
    \E date \in DateInputs :
      IF date = NaN THEN Refuse([r1 EXCEPT !.date = date], 400)
      ELSE \E note \in NoteInputs :
             LET req == [r1 EXCEPT !.date = date, !.note = note]
                 r == InsertExtraSession(sessions, session_seq, req.cls, date, note)
             IN  /\ sessions' = r.rows
                 /\ session_seq' = r.seq
                 /\ Answered(req, IF ~r.ok THEN 500
                                  ELSE IF r.returned = {} THEN 409 ELSE 201)
                 /\ UNCHANGED <<classes, class_users, students, attendances, student_seq>>

PostExtraSession ==
    /\ Listening
    /\ \E cred \in CredInputs, raw \in ClassIdInputs :
         LET r1 == [Request("extra", cred) EXCEPT !.cls = Number(raw)]
         IN  IF ProfOrAdmin(cred) # 0 THEN Refuse(r1, ProfOrAdmin(cred))
             ELSE IF ensureClassAccess(cred, Number(raw)) # 0
             THEN Refuse(r1, ensureClassAccess(cred, Number(raw)))
             ELSE postExtraHandler(r1)

(***************************************************************************)
(* POST /classes/:id/generate-sessions                                     *)
(***************************************************************************)
SetClassWeekday(tbl, classId, iso) ==
    [c \in DOMAIN tbl |-> IF c = classId THEN [tbl[c] EXCEPT !.weekday = iso] ELSE tbl[c]]

generateHandler(r1) ==
    LET classId == r1.cls
    IN  IF ~IsInteger(classId) THEN Refuse(r1, 400)
        ELSE IF classId \notin DOMAIN classes THEN Refuse(r1, 404)
        ELSE \E wd \in WeekdayInputs :
          LET fromBody == normalizeToIsoWeekday(wd)
              isoWeekday == IF fromBody = NULL
                            THEN normalizeToIsoWeekday(WdOfColumn(classes[classId].weekday))
                            ELSE fromBody
              window == getActiveSchoolYear(now)
              allDates == enumerateDatesByWeekday(window.start, window.end, isoWeekday)
              r == InsertSessions(sessions, session_seq, classId, allDates)
          IN  IF isoWeekday = NULL THEN Refuse([r1 EXCEPT !.wd = wd], 400)
              ELSE /\ classes' = IF classes[classId].weekday # isoWeekday
                                 THEN SetClassWeekday(classes, classId, isoWeekday)
                                 ELSE classes
                   /\ sessions' = r.rows
                   /\ session_seq' = r.seq
                   /\ Answered([r1 EXCEPT !.wd = wd, !.sy = schoolStartYear(now),
                                           !.iso = isoWeekday,
                                           !.body = IF r.ok THEN ListSessions(sessions', classId)
                                                    ELSE <<>>],
                               IF r.ok THEN 200 ELSE 500)
                   /\ UNCHANGED <<class_users, students, attendances, student_seq>>

GenerateSessions ==
    /\ Listening
    /\ \E cred \in CredInputs, raw \in ClassIdInputs :
         LET r1 == [Request("generate", cred) EXCEPT !.cls = Number(raw)]
         IN  IF ProfOrAdmin(cred) # 0 THEN Refuse(r1, ProfOrAdmin(cred))
             ELSE IF ensureClassAccess(cred, Number(raw)) # 0
             THEN Refuse(r1, ensureClassAccess(cred, Number(raw)))
             ELSE generateHandler(r1)

(***************************************************************************)
(* PATCH /classes/:id/weekday                                              *)
(***************************************************************************)
patchClassWeekdayHandler(r1) ==
    \E wd \in WeekdayInputs :
      LET classId == r1.cls
          iso == normalizeToIsoWeekday(wd)
      IN  IF iso = NULL THEN Refuse([r1 EXCEPT !.wd = wd], 400)
          ELSE IF ~IsInteger(classId) THEN Refuse([r1 EXCEPT !.wd = wd], 500)
          ELSE \E startYear \in StartYearInputs :
            LET sy == IF startYear # NULL THEN startYear ELSE schoolStartYear(now)
                dates == enumerateDatesByWeekday(utcNoon(sy, 8, 1), utcNoon(sy + 1, 6, 14),
                                                 iso)
                r == InsertSessions(sessions, session_seq, classId, dates)
            IN  /\ classes' = SetClassWeekday(classes, classId, iso)
                /\ sessions' = r.rows
                /\ session_seq' = r.seq
                /\ Answered([r1 EXCEPT !.wd = wd, !.startYear = startYear, !.sy = sy,
                                        !.iso = iso,
                                        !.body = IF r.ok THEN ListSessions(sessions', classId)
                                                 ELSE <<>>],
                            IF r.ok THEN 200 ELSE 500)
                /\ UNCHANGED <<class_users, students, attendances, student_seq>>

PatchClassWeekday ==
    /\ Listening
    /\ \E cred \in CredInputs, raw \in ClassIdInputs :
         LET r1 == [Request("weekday", cred) EXCEPT !.cls = Number(raw)]
         IN  IF ProfOrAdmin(cred) # 0 THEN Refuse(r1, ProfOrAdmin(cred))
             ELSE IF ensureClassAccess(cred, Number(raw)) # 0
             THEN Refuse(r1, ensureClassAccess(cred, Number(raw)))
             ELSE patchClassWeekdayHandler(r1)

(***************************************************************************)
(* POST /sessions                                                          *)
(***************************************************************************)
ExistingDates(tbl, classId) == {to_char(s.date) : s \in {q \in tbl : q.class_id = classId}}

\* existingResult.rows.map((row) => row.date): the rows come in an order the
\* store chooses; the handler sorts the list it answers with
existingDatesList(tbl, classId) ==
    LET rows == OrderByDate({q \in tbl : q.class_id = classId})
    IN  [i \in 1..Len(rows) |-> to_char(rows[i].date)]

\* [...existingDates, ...newDates].sort() on dates spelled YYYY-MM-DD
allDatesSorted(existingDates, newDates) == SortSeq(existingDates \o newDates, <)

postSessionsHandler(r1) ==
    \E dates \in DatesInputs :
      LET req == [r1 EXCEPT !.dates = dates]
          class_id == r1.cls
          IsNew(d) == d \notin ExistingDates(sessions, class_id)
          newDates == SelectSeq(dates, IsNew)
          r == InsertSessions(sessions, session_seq, class_id, newDates)
      IN  IF dates = <<>> THEN Refuse(req, 400)
          ELSE IF ~IsInteger(class_id) THEN Refuse(req, 500)
          ELSE /\ sessions' = r.rows
               /\ session_seq' = r.seq
               /\ Answered([req EXCEPT !.body =
                               IF r.ok
                               THEN allDatesSorted(existingDatesList(sessions, class_id),
                                                   newDates)
                               ELSE <<>>],
                           IF r.ok THEN 200 ELSE 500)
               /\ UNCHANGED <<classes, class_users, students, attendances, student_seq>>

PostSessions ==
    /\ Listening
    /\ \E cred \in CredInputs, raw \in ClassIdInputs :
         LET r1 == [Request("sessions", cred) EXCEPT !.cls = Number(raw)]
         IN  IF ProfOrAdmin(cred) # 0 THEN Refuse(r1, ProfOrAdmin(cred))
             ELSE IF ensureClassAccess(cred, Number(raw)) # 0
             THEN Refuse(r1, ensureClassAccess(cred, Number(raw)))
             ELSE postSessionsHandler(r1)

(***************************************************************************)
(* Students: POST /api/students, PATCH /api/students/:id and               *)
(* DELETE /api/students/:id.  None of them has a guard, so the credential  *)
(* is never read.                                                          *)
(***************************************************************************)
ensureSessionsForWeekday(tbl, seq, classId, isoWeekday, startYear) ==
    IF isoWeekday = NULL THEN [ok |-> TRUE, rows |-> tbl, seq |-> seq]
    ELSE InsertSessions(tbl, seq, classId,
            enumerateDatesByWeekday(utcNoon(startYear, 8, 1), utcNoon(startYear + 1, 6, 14),
                                    isoWeekday))

PostStudent ==
    /\ Listening
    /\ student_seq < MaxStudents
    /\ \E raw \in ClassIdInputs :
         LET class_id == Number(raw)
             r1 == [Request("student", NULL) EXCEPT !.cls = class_id]
         IN  IF ~IsInteger(class_id) THEN Refuse(r1, 500)
             ELSE IF class_id \notin DOMAIN classes
             THEN /\ student_seq' = student_seq + 1
                  /\ Answered(r1, 500)
                  /\ UNCHANGED <<classes, class_users, students, sessions, attendances,
                                 session_seq>>
             ELSE \E wd \in WeekdayInputs :
                    LET iso == normalizeToIsoWeekday(wd)
                        r == ensureSessionsForWeekday(sessions, session_seq, class_id, iso,
                                                      schoolStartYear(now))
                    IN  /\ student_seq' = student_seq + 1
                        /\ students' = students \cup
                              {[id |-> student_seq + 1, class_id |-> class_id,
                                weekday |-> iso]}
                        /\ sessions' = r.rows
                        /\ session_seq' = r.seq
                        /\ Answered([r1 EXCEPT !.wd = wd, !.stu = student_seq + 1,
                                               !.sy = schoolStartYear(now), !.iso = iso],
                                    200)
                        /\ UNCHANGED <<classes, class_users, attendances>>

PatchStudent ==
    /\ Listening
    /\ \E raw \in StudentIdInputs :
         LET id == Number(raw)
             r1 == [Request("studentWeekday", NULL) EXCEPT !.stu = id]
             rows == {st \in students : st.id = id}
         IN  IF ~IsInteger(id) THEN Refuse(r1, 500)
             ELSE IF rows = {} THEN Refuse(r1, 404)
             ELSE \E wd \in WeekdayInputs :
                    LET iso == normalizeToIsoWeekday(wd)
                        class_id == (CHOOSE st \in rows : TRUE).class_id
                        r == ensureSessionsForWeekday(sessions, session_seq, class_id, iso,
                                                      schoolStartYear(now))
                    IN  /\ students' = {IF st.id = id THEN [st EXCEPT !.weekday = iso]
                                        ELSE st : st \in students}
                        /\ sessions' = r.rows
                        /\ session_seq' = r.seq
                        /\ Answered([r1 EXCEPT !.wd = wd, !.cls = class_id,
                                               !.sy = schoolStartYear(now), !.iso = iso],
                                    200)
                        /\ UNCHANGED <<classes, class_users, attendances, student_seq>>

\* The schema is no part of the source: the marks of a deleted student are
\* either removed with it (ON DELETE CASCADE) or make the statement fail.
OnDeleteActions == {"CASCADE", "NO ACTION"}

DeleteStudent ==
    /\ Listening
    /\ \E raw \in StudentIdInputs :
         LET id == Number(raw)
             req == [Request("studentDelete", NULL) EXCEPT !.stu = id]
             marks == {a \in attendances : a.student_id = id}
         IN  IF ~IsInteger(id) THEN Refuse(req, 400)
             ELSE IF ~\E st \in students : st.id = id THEN Refuse(req, 404)
             ELSE \E on_delete \in (IF marks = {} THEN {"CASCADE"} ELSE OnDeleteActions) :
                    IF on_delete = "NO ACTION" THEN Refuse(req, 500)
                    ELSE /\ students' = {st \in students : st.id # id}
                         /\ attendances' = attendances \ marks
                         /\ Answered(req, 204)
                         /\ UNCHANGED <<classes, class_users, sessions, session_seq,
                                        student_seq>>

(***************************************************************************)
(* The clock.                                                              *)
(***************************************************************************)
Tick ==
    /\ ticks < MaxTicks
    /\ now' = IF now[2] = 12 THEN <<now[1] + 1, 1>> ELSE <<now[1], now[2] + 1>>
    /\ ticks' = ticks + 1
    /\ UNCHANGED <<store, nreq, last, prev, inflight, calc>>

(***************************************************************************)
(* The initial state: two classes, a student in each, and three sessions   *)
(* entered through POST /sessions.  Class 1 is owned by prof 1; class 2 is *)
(* owned by user 4 and co-managed by prof 2.                               *)
(***************************************************************************)
Init ==
    /\ classes = (1 :> [user_id |-> 1, weekday |-> NULL])
                 @@ (2 :> [user_id |-> 4, weekday |-> NULL])
    /\ class_users = {<<2, 2>>, <<2, 4>>}
    /\ students = {[id |-> 1, class_id |-> 1, weekday |-> NULL],
                   [id |-> 2, class_id |-> 2, weekday |-> NULL]}
    /\ sessions = {SessionRow(1, 1, toDate(20240904), "scheduled", NoNote),
                   SessionRow(2, 1, toDate(20240905), "scheduled", NoNote),
                   SessionRow(3, 2, toDate(20240904), "scheduled", NoNote)}
    /\ attendances = {}
    /\ session_seq = 3
    /\ student_seq = 2
    /\ now = <<2025, 8>>
    /\ ticks = 0
    /\ nreq = 0
    /\ last = NoRequest
    /\ prev = Summary(NoRequest)
    /\ inflight = [p \in Slots |-> IdleSlot]
    /\ calc = NoCall

Next ==
    \/ PatchSessionStatus
    \/ PostAttendance
    \/ PostExtraSession
    \/ GenerateSessions
    \/ PatchClassWeekday
    \/ PostSessions
    \/ PostStudent
    \/ PatchStudent
    \/ DeleteStudent
    \/ Tick

Spec == Init /\ [][Next]_vars

(***************************************************************************)
(* Concurrent requests.  The handlers are async functions over a          *)
(* connection pool and open no transaction: each awaited pool.query is one *)
(* atomic statement, and the statements of requests in flight interleave.  *)
(* A slot holds a request between two of its statements; pc names the      *)
(* statement it runs next.                                                 *)
(***************************************************************************)
MaxConcReq == 3

ConcCredInputs == {1, 3}
ConcSessionIdInputs == {IdInt(1), IdInt(2)}
ConcStudentIdInputs == {IdInt(1)}
ConcSessionStatusInputs == {"scheduled", "cancelled"}
ConcAttendanceStatusInputs == {"present", "absent"}

Park(p, slot) ==
    /\ inflight' = [inflight EXCEPT ![p] = slot]
    /\ UNCHANGED <<now, ticks, nreq, last, prev, calc>>

Respond(p, code, wrote) ==
    /\ last' = [inflight[p].req EXCEPT !.code = code, !.wrote = wrote]
    /\ prev' = Summary(last)
    /\ inflight' = [inflight EXCEPT ![p] = IdleSlot]
    /\ UNCHANGED <<now, ticks, nreq, calc>>

\* where the handler first awaits, once the guards have passed and its
\* synchronous checks too (the inputs above pass them)
HandlerEntry(req) ==
    IF req.op = "attendance" THEN "fk"
    ELSE IF req.op = "generate" THEN "genClass"
    ELSE IF req.op = "weekday" THEN "wdUpdate"
    ELSE IF req.op = "sessions" THEN "existing"
    ELSE IF req.status \in statusNonPointables THEN "count" ELSE "update"

\* the request arrives: the middleware and handler code up to the first await
Begin(p, req, raw) ==
    /\ nreq < MaxConcReq
    /\ inflight[p].pc = "idle"
    /\ ProfOrAdmin(req.cred) = 0
    /\ nreq' = nreq + 1
    /\ inflight' = [inflight EXCEPT ![p] =
            IF users[req.cred] = "admin"
            THEN [IdleSlot EXCEPT !.pc = HandlerEntry(req), !.req = req, !.id = Number(raw)]
            ELSE [IdleSlot EXCEPT !.req = req, !.id = Number(raw),
                     !.pc = IF req.op \in {"attendance", "status"} THEN "guardSession"
                            ELSE "guardClass"]]
    /\ UNCHANGED <<store, now, ticks, last, prev, calc>>

BeginAttendance(p) ==
    \E cred \in ConcCredInputs, raw \in ConcSessionIdInputs, stu \in ConcStudentIdInputs,
       status \in ConcAttendanceStatusInputs :
      Begin(p, [Request("attendance", cred) EXCEPT !.sid = Number(raw),
                    !.stu = Number(stu), !.status = status], raw)

BeginStatus(p) ==
    \E cred \in ConcCredInputs, raw \in ConcSessionIdInputs,
       status \in ConcSessionStatusInputs, force \in BOOLEAN :
      Begin(p, [Request("status", cred) EXCEPT !.sid = Number(raw), !.status = status,
                    !.note = NoNote, !.force = force], raw)

\* ensureSessionAccess: SELECT class_id FROM sessions WHERE id = $1
GuardSession(p) ==
    /\ inflight[p].pc = "guardSession"
    /\ UNCHANGED store
    /\ IF SessionRows(inflight[p].id) = {} THEN Respond(p, 404, FALSE)
       ELSE Park(p, [inflight[p] EXCEPT !.pc = "guardClass",
                        !.id = (CHOOSE s \in SessionRows(inflight[p].id) : TRUE).class_id])

\* ensureClassAccess: SELECT 1 FROM classes c LEFT JOIN class_users cu ...
GuardClass(p) ==
    /\ inflight[p].pc = "guardClass"
    /\ UNCHANGED store
    /\ IF ensureClassAccess(inflight[p].req.cred, inflight[p].id) # 0
       THEN Respond(p, ensureClassAccess(inflight[p].req.cred, inflight[p].id), FALSE)
       ELSE Park(p, [inflight[p] EXCEPT !.pc = HandlerEntry(inflight[p].req)])

\* POST /attendance: SELECT (SELECT 1 FROM students ...) AS has_student, ...
AttendanceFk(p) ==
    /\ inflight[p].pc = "fk"
    /\ UNCHANGED store
    /\ IF ~\E st \in students : st.id = inflight[p].req.stu THEN Respond(p, 400, FALSE)
       ELSE IF SessionRows(inflight[p].req.sid) = {} THEN Respond(p, 400, FALSE)
       ELSE Park(p, [inflight[p] EXCEPT !.pc = "status"])

\* POST /attendance: SELECT status FROM sessions WHERE id=$1
AttendanceStatus(p) ==
    /\ inflight[p].pc = "status"
    /\ UNCHANGED store
    /\ LET sRows == SessionRows(inflight[p].req.sid)
       IN  IF sRows = {} THEN Respond(p, 404, FALSE)
           ELSE IF (CHOOSE r \in sRows : TRUE).status \in attendanceNonPointables
           THEN Respond(p, 409, FALSE)
           ELSE Park(p, [inflight[p] EXCEPT !.pc = "upsert"])

\* POST /attendance: INSERT INTO attendances ... ON CONFLICT ... DO UPDATE
AttendanceUpsert(p) ==
    /\ inflight[p].pc = "upsert"
    /\ attendances' = UpsertAttendance(attendances, inflight[p].req.stu,
                                       inflight[p].req.sid, inflight[p].req.status,
                                       NullComment)
    /\ Respond(p, 200, TRUE)
    /\ UNCHANGED <<classes, class_users, students, sessions, session_seq, student_seq>>

\* PATCH /sessions/:id/status: SELECT COUNT(*)::int AS n FROM attendances ...
StatusCount(p) ==
    /\ inflight[p].pc = "count"
    /\ UNCHANGED store
    /\ LET n == CountAttendances(attendances, inflight[p].id)
       IN  IF n > 0 /\ ~inflight[p].req.force
           THEN /\ last' = [inflight[p].req EXCEPT !.code = 409, !.n = n]
                /\ prev' = Summary(last)
                /\ inflight' = [inflight EXCEPT ![p] = IdleSlot]
                /\ UNCHANGED <<now, ticks, nreq, calc>>
           ELSE Park(p, [inflight[p] EXCEPT !.n = n,
                            !.pc = IF n > 0 THEN "delete" ELSE "update"])

\* PATCH /sessions/:id/status: DELETE FROM attendances WHERE session_id=$1
StatusDelete(p) ==
    /\ inflight[p].pc = "delete"
    /\ attendances' = DeleteAttendances(attendances, inflight[p].id)
    /\ Park(p, [inflight[p] EXCEPT !.pc = "update"])
    /\ UNCHANGED <<classes, class_users, students, sessions, session_seq, student_seq>>

\* PATCH /sessions/:id/status: UPDATE sessions SET status=$1, note=$2 WHERE id=$3
StatusUpdate(p) ==
    /\ inflight[p].pc = "update"
    /\ sessions' = UpdateSessionStatus(sessions, inflight[p].id, inflight[p].req.status,
                                       inflight[p].req.note)
    /\ Park(p, [inflight[p] EXCEPT !.pc = "select"])
    /\ UNCHANGED <<classes, class_users, students, attendances, session_seq, student_seq>>

\* PATCH /sessions/:id/status: SELECT id, to_char(date, ...) ... and the response
StatusSelect(p) ==
    /\ inflight[p].pc = "select"
    /\ UNCHANGED store
    /\ Respond(p, 200, TRUE)

NextConc ==
    \/ \E p \in Slots : BeginAttendance(p)
    \/ \E p \in Slots : BeginStatus(p)
    \/ \E p \in Slots : GuardSession(p)
    \/ \E p \in Slots : GuardClass(p)
    \/ \E p \in Slots : AttendanceFk(p)
    \/ \E p \in Slots : AttendanceStatus(p)
    \/ \E p \in Slots : AttendanceUpsert(p)
    \/ \E p \in Slots : StatusCount(p)
    \/ \E p \in Slots : StatusDelete(p)
    \/ \E p \in Slots : StatusUpdate(p)
    \/ \E p \in Slots : StatusSelect(p)

SpecConc == Init /\ [][NextConc]_vars

(***************************************************************************)
(* Concurrent requests that insert sessions: generate-sessions, the class  *)
(* weekday route and POST /sessions, statement by statement, next to       *)
(* concurrent POST /attendance requests.                                   *)
(***************************************************************************)
ConcClassIdInputs == {IdInt(1)}
ConcWeekdayInputs == {WdNum(3), WdNum(4)}
ConcDatesInputs == {<<20240904, 20240911>>, <<20240911, 20240912>>}

BeginGenerate(p) ==
    \E cred \in ConcCredInputs, raw \in ConcClassIdInputs, wd \in ConcWeekdayInputs :
      Begin(p, [Request("generate", cred) EXCEPT !.cls = Number(raw), !.wd = wd], raw)

BeginWeekday(p) ==
    \E cred \in ConcCredInputs, raw \in ConcClassIdInputs, wd \in ConcWeekdayInputs :
      Begin(p, [Request("weekday", cred) EXCEPT !.cls = Number(raw), !.wd = wd,
                    !.startYear = NULL], raw)

BeginSessions(p) ==
    \E cred \in ConcCredInputs, raw \in ConcClassIdInputs, dates \in ConcDatesInputs :
      Begin(p, [Request("sessions", cred) EXCEPT !.cls = Number(raw), !.dates = dates], raw)

\* generate-sessions: SELECT id, weekday FROM classes WHERE id = $1
GenerateClass(p) ==
    /\ inflight[p].pc = "genClass"
    /\ UNCHANGED store
    /\ LET classId == inflight[p].req.cls
       IN  IF classId \notin DOMAIN classes THEN Respond(p, 404, FALSE)
           ELSE LET fromBody == normalizeToIsoWeekday(inflight[p].req.wd)
                    isoWeekday ==
                        IF fromBody = NULL
                        THEN normalizeToIsoWeekday(WdOfColumn(classes[classId].weekday))
                        ELSE fromBody
                IN  IF isoWeekday = NULL THEN Respond(p, 400, FALSE)
                    ELSE Park(p, [inflight[p] EXCEPT !.req.iso = isoWeekday,
                                     !.req.sy = schoolStartYear(now),
                                     !.pc = IF classes[classId].weekday # isoWeekday
                                            THEN "genUpdate" ELSE "genInsert"])

\* generate-sessions: UPDATE classes SET weekday = $1 WHERE id = $2
GenerateUpdate(p) ==
    /\ inflight[p].pc = "genUpdate"
    /\ classes' = SetClassWeekday(classes, inflight[p].req.cls, inflight[p].req.iso)
    /\ Park(p, [inflight[p] EXCEPT !.pc = "genInsert"])
    /\ UNCHANGED <<class_users, students, sessions, attendances, session_seq, student_seq>>

\* generate-sessions: INSERT INTO sessions ... ON CONFLICT (class_id, date) DO NOTHING
GenerateInsert(p) ==
    /\ inflight[p].pc = "genInsert"
    /\ LET window == getActiveSchoolYear(now)
           allDates == enumerateDatesByWeekday(window.start, window.end, inflight[p].req.iso)
           r == InsertSessions(sessions, session_seq, inflight[p].req.cls, allDates)
       IN  /\ sessions' = r.rows
           /\ session_seq' = r.seq
           /\ IF r.ok THEN Park(p, [inflight[p] EXCEPT !.pc = "list"])
              ELSE Respond(p, 500, TRUE)
    /\ UNCHANGED <<classes, class_users, students, attendances, student_seq>>

\* PATCH /classes/:id/weekday: UPDATE classes SET weekday=$1 WHERE id=$2
WeekdayUpdate(p) ==
    /\ inflight[p].pc = "wdUpdate"
    /\ LET iso == normalizeToIsoWeekday(inflight[p].req.wd)
           startYear == inflight[p].req.startYear
           sy == IF startYear # NULL THEN startYear ELSE schoolStartYear(now)
       IN  /\ classes' = SetClassWeekday(classes, inflight[p].req.cls, iso)
           /\ Park(p, [inflight[p] EXCEPT !.req.iso = iso, !.req.sy = sy, !.pc = "wdInsert"])
    /\ UNCHANGED <<class_users, students, sessions, attendances, session_seq, student_seq>>

\* PATCH /classes/:id/weekday: INSERT INTO sessions ... ON CONFLICT ... DO NOTHING
WeekdayInsert(p) ==
    /\ inflight[p].pc = "wdInsert"
    /\ LET sy == inflight[p].req.sy
           dates == enumerateDatesByWeekday(utcNoon(sy, 8, 1), utcNoon(sy + 1, 6, 14),
                                            inflight[p].req.iso)
           r == InsertSessions(sessions, session_seq, inflight[p].req.cls, dates)
       IN  /\ sessions' = r.rows
           /\ session_seq' = r.seq
           /\ IF r.ok THEN Park(p, [inflight[p] EXCEPT !.pc = "list"])
              ELSE Respond(p, 500, TRUE)
    /\ UNCHANGED <<classes, class_users, students, attendances, student_seq>>

\* both routes: SELECT id, to_char(date, ...) ... ORDER BY date, and the response
ListSelect(p) ==
    /\ inflight[p].pc = "list"
    /\ UNCHANGED store
    /\ Respond(p, 200, TRUE)

\* POST /sessions: SELECT to_char(date, 'YYYY-MM-DD') AS date FROM sessions ...,
\* then the filter of the dates not seen
SessionsExisting(p) ==
    /\ inflight[p].pc = "existing"
    /\ UNCHANGED store
    /\ LET existingDates == ExistingDates(sessions, inflight[p].req.cls)
           IsNew(d) == d \notin existingDates
           newDates == SelectSeq(inflight[p].req.dates, IsNew)
       IN  IF newDates = <<>> THEN Respond(p, 200, FALSE)
           ELSE Park(p, [inflight[p] EXCEPT !.pc = "insert", !.newDates = newDates])

\* POST /sessions: INSERT INTO sessions ... ON CONFLICT (class_id, date) DO NOTHING
SessionsInsert(p) ==
    /\ inflight[p].pc = "insert"
    /\ LET r == InsertSessions(sessions, session_seq, inflight[p].req.cls,
                               inflight[p].newDates)
       IN  /\ sessions' = r.rows
           /\ session_seq' = r.seq
           /\ Respond(p, IF r.ok THEN 200 ELSE 500, TRUE)
    /\ UNCHANGED <<classes, class_users, students, attendances, student_seq>>

NextRace ==
    \/ \E p \in Slots : BeginGenerate(p)
    \/ \E p \in Slots : BeginWeekday(p)
    \/ \E p \in Slots : BeginSessions(p)
    \/ \E p \in Slots : BeginAttendance(p)
    \/ \E p \in Slots : GuardSession(p)
    \/ \E p \in Slots : GuardClass(p)
    \/ \E p \in Slots : GenerateClass(p)
    \/ \E p \in Slots : GenerateUpdate(p)
    \/ \E p \in Slots : GenerateInsert(p)
    \/ \E p \in Slots : WeekdayUpdate(p)
    \/ \E p \in Slots : WeekdayInsert(p)
    \/ \E p \in Slots : ListSelect(p)
    \/ \E p \in Slots : SessionsExisting(p)
    \/ \E p \in Slots : SessionsInsert(p)
    \/ \E p \in Slots : AttendanceFk(p)
    \/ \E p \in Slots : AttendanceStatus(p)
    \/ \E p \in Slots : AttendanceUpsert(p)

SpecRace == Init /\ [][NextRace]_vars

(***************************************************************************)
(* The date and weekday functions, called on their own.                    *)
(***************************************************************************)
MaxWindowShift == 6

\* windows: the school years the routes build, and short ones around the
\* end of February 2024 and the end of 2024
WindowStartInputs ==
    {utcNoon(y, 8, 1) : y \in {2023, 2024, 2025}}
        \cup {toDate(20240225) + k : k \in 0..MaxWindowShift}
        \cup {toDate(20241229) + k : k \in 0..MaxWindowShift}
WindowSpanInputs == {-1, 0, 6, 7, 13, 316, 317}
IsoWeekdayInputs == 1..7

WeekdayValueInputs ==
    {WdAbsent} \cup {WdNum(n) : n \in -1..9}
        \cup {WdStr(x) : x \in DOMAIN ISO_FROM_FR
                              \cup {"Lundi", "MERCREDI", "Dimanche", "monday", "3", ""}}

\* the functions read nothing but their arguments: one call per behaviour
CallEnumerate ==
    /\ calc.fn = "none"
    /\ \E start \in WindowStartInputs, span \in WindowSpanInputs, iso \in IsoWeekdayInputs :
         /\ calc' = [NoCall EXCEPT !.fn = "enumerateDatesByWeekday", !.start = start,
                         !.end = start + span, !.iso = iso,
                         !.dates = enumerateDatesByWeekday(start, start + span, iso)]
         /\ UNCHANGED <<store, now, ticks, nreq, last, prev, inflight>>

CallNormalize ==
    /\ calc.fn = "none"
    /\ \E wd \in WeekdayValueInputs :
         /\ calc' = [NoCall EXCEPT !.fn = "normalizeToIsoWeekday", !.wd = wd,
                         !.n = normalizeToIsoWeekday(wd)]
         /\ UNCHANGED <<store, now, ticks, nreq, last, prev, inflight>>

NextCall ==
    \/ CallEnumerate
    \/ CallNormalize

SpecCall == Init /\ [][NextCall]_vars


(***************************************************************************)
(* Vocabulary of the claims.                                               *)
(***************************************************************************)
NonPointable == {"cancelled", "holiday", "vacation"}
GuardedOps == {"status", "attendance", "extra", "generate", "weekday", "sessions"}

IsOwnerOrCoManager(c, u) ==
    c \in DOMAIN classes /\ (classes[c].user_id = u \/ <<c, u>> \in class_users)

SessionExists(tbl, x) == \E s \in tbl : s.id = x
ClassOfSession(tbl, x) == (CHOOSE s \in tbl : s.id = x).class_id
MarksOf(att, x) == {a \in att : a.session_id = x}
SessionsOfClass(tbl, c) == {s \in tbl : s.class_id = c}
MarksOfClass(att, tbl, c) ==
    {a \in att : \E s \in tbl : s.id = a.session_id /\ s.class_id = c}

\* this step served a request
Served == nreq' = nreq + 1

\* C1: a successful status change of session X sets the status and note of X
\* itself and leaves the status, note and marks of every other session as
\* they were.
C1_StatusChangeActsOnX ==
    [][(Served /\ last'.op = "status" /\ last'.code = 200
            /\ SessionExists(sessions, last'.sid))
        => /\ \A s \in sessions : s.id = last'.sid =>
                [s EXCEPT !.status = last'.status, !.note = last'.note] \in sessions'
           /\ {s \in sessions' : s.id # last'.sid} = {s \in sessions : s.id # last'.sid}
           /\ {a \in attendances' : a.session_id # last'.sid}
                = {a \in attendances : a.session_id # last'.sid}]_vars

\* C2: a step that changes the sessions of a class, or the attendance marks
\* of its sessions, serves a request of an admin, of the owner or of a
\* co-manager of that class.
C2_MutationsPassTheGuard ==
    [][\A c \in DOMAIN classes :
          (\/ SessionsOfClass(sessions', c) # SessionsOfClass(sessions, c)
           \/ MarksOfClass(attendances', sessions, c) # MarksOfClass(attendances, sessions, c))
          => /\ last'.cred \in DOMAIN users
             /\ users[last'.cred] = "admin" \/ IsOwnerOrCoManager(c, last'.cred)]_vars

\* C3: whatever the interleaving of the statements of concurrent requests,
\* no attendance mark belongs to a session that is cancelled, holiday or
\* vacation.
C3_NoMarkOnNonPointableSession ==
    \A a \in attendances : \A s \in sessions :
        s.id = a.session_id => s.status \notin NonPointable


\* the subject of a request holds a valid token, a role the route admits,
\* and is admin, owner or co-manager of class c
AuthorizedFor(r, c) ==
    /\ r.cred \in DOMAIN users
    /\ users[r.cred] \in {"prof", "admin"}
    /\ users[r.cred] = "admin" \/ IsOwnerOrCoManager(c, r.cred)

NotBlank(comment) ==
    comment # NullComment /\ \E i \in 1..Len(comment) : comment[i] # " "

\* the body of an attendance request names an existing student, a known
\* status and, when excused, a comment that is not blank
AttendanceBodyValid(r) ==
    /\ \E st \in students : st.id = r.stu
    /\ r.status \in AttendanceStatuses
    /\ r.status = "excused" => NotBlank(r.comment)

\* this step served an attendance request, past the access guard, against a
\* session that is cancelled, holiday or vacation
AttendanceOnNonPointable ==
    /\ Served /\ last'.op = "attendance" /\ last'.code \notin {401, 403}
    /\ \E s \in sessions : s.id = last'.sid /\ s.status \in NonPointable

NonPointableChange ==
    /\ Served /\ last'.op = "status" /\ last'.status \in NonPointable
    /\ SessionExists(sessions, last'.sid)
    /\ AuthorizedFor(last', ClassOfSession(sessions, last'.sid))

\* C5: an unforced status change of session X to cancelled, holiday or
\* vacation while X has n > 0 marks is answered 409 with n reported, and
\* sessions and marks stay as they were.
C5_UnforcedConflictReportsCount ==
    [][(NonPointableChange /\ ~last'.force
            /\ CountAttendances(attendances, last'.sid) > 0)
        => /\ last'.code = 409
           /\ last'.n = CountAttendances(attendances, last'.sid)
           /\ sessions' = sessions
           /\ attendances' = attendances]_vars

\* C6: a forced status change of session X to cancelled, holiday or vacation
\* while X has marks is answered 200; afterwards X has the requested status
\* and note and no marks, and the marks of the other sessions are untouched.
C6_ForcedChangeClearsMarks ==
    [][(NonPointableChange /\ last'.force
            /\ CountAttendances(attendances, last'.sid) > 0)
        => /\ last'.code = 200
           /\ \A s \in sessions' : s.id = last'.sid =>
                s.status = last'.status /\ s.note = last'.note
           /\ MarksOf(attendances', last'.sid) = {}
           /\ {a \in attendances' : a.session_id # last'.sid}
                = {a \in attendances : a.session_id # last'.sid}]_vars


\* the class a guarded request targets: the class named by the request, or
\* the class of the session it names (0 when neither resolves)
TargetClass(r) ==
    IF r.op \in {"status", "attendance"}
    THEN IF SessionExists(sessions, r.sid) THEN ClassOfSession(sessions, r.sid) ELSE NULL
    ELSE IF r.cls \in DOMAIN classes THEN r.cls ELSE NULL

\* this step served a guarded request of an authenticated subject
GuardedRequest ==
    Served /\ last'.op \in GuardedOps /\ last'.cred \in DOMAIN users

\* C7 (as amended): a guarded request on an existing class, or on a session
\* of it, is let through (not answered 403) if and only if the subject is
\* admin, or has role prof and is the owner or a co-manager of the class; an
\* admin is never answered 403.
C7_AuthorizedIffAdminOrManagingProf ==
    [][GuardedRequest
        => /\ TargetClass(last') # NULL =>
                (last'.code # 403 <=>
                    \/ users[last'.cred] = "admin"
                    \/ /\ users[last'.cred] = "prof"
                       /\ IsOwnerOrCoManager(TargetClass(last'), last'.cred))
           /\ users[last'.cred] = "admin" => last'.code # 403]_vars

\* C7 (as claimed): a guarded request is let through if and only if the
\* subject is admin, or is the owner or a co-manager of the class, whatever
\* its role; an admin is never answered 403.
C7_Original ==
    [][GuardedRequest
        => /\ TargetClass(last') # NULL =>
                (last'.code # 403 <=>
                    \/ users[last'.cred] = "admin"
                    \/ IsOwnerOrCoManager(TargetClass(last'), last'.cred))
           /\ users[last'.cred] = "admin" => last'.code # 403]_vars

\* a co-manager who is not the owner got a session created
C7_Witness ==
    /\ last.op = "extra" /\ last.code = 201 /\ last.cred \in DOMAIN users
    /\ users[last.cred] = "prof"
    /\ <<last.cls, last.cred>> \in class_users
    /\ classes[last.cls].user_id # last.cred

\* C8: an attendance mark present before a step and absent after it was
\* removed by a forced status change of its own session to cancelled,
\* holiday or vacation.
C8_MarksRemovedOnlyByForcedChange ==
    [][\A a \in attendances :
          (~\E b \in attendances' :
                b.student_id = a.student_id /\ b.session_id = a.session_id)
          => /\ last'.op = "status" /\ last'.force /\ last'.code = 200
             /\ last'.sid = a.session_id
             /\ last'.status \in NonPointable
             /\ \A s \in sessions' : s.id = a.session_id => s.status \in NonPointable]_vars

StrictlyByDate(list) ==
    \A i \in 1..(Len(list) - 1) : list[i].date < list[i + 1].date

\* C9: creating an extra session for class C at date D is answered 409 and
\* changes no session when C has a session at D; otherwise it is answered
\* 201, adds exactly one session, of status extra, and C's listing, ordered
\* by date, shows it.
C9_ExtraSessionCreation ==
    [][(Served /\ last'.op = "extra" /\ last'.wrote /\ last'.cls \in DOMAIN classes)
        => LET C == last'.cls
               D == toDate(last'.date)
               listing == ListSessions(sessions', C)
           IN  IF \E s \in sessions : s.class_id = C /\ s.date = D
               THEN last'.code = 409 /\ sessions' = sessions
               ELSE /\ last'.code = 201
                    /\ sessions \subseteq sessions'
                    /\ Cardinality(sessions' \ sessions) = 1
                    /\ \A s \in sessions' \ sessions :
                         /\ s.class_id = C /\ s.date = D
                         /\ s.status = "extra" /\ s.note = last'.note
                         /\ \E i \in 1..Len(listing) :
                              listing[i].id = s.id /\ listing[i].status = "extra"
                    /\ StrictlyByDate(listing)]_vars

C9_Witness ==
    /\ last.op = "extra" /\ last.code = 201
    /\ \E s \in sessions :
         s.class_id = last.cls /\ s.date = toDate(last.date) /\ s.status = "extra"

GenerationOps == {"generate", "weekday"}

\* C10: a session generation that follows a session generation for the same
\* class, weekday and school year leaves the sessions as the first left them.
C10_GenerationIdempotent ==
    [][(/\ Served
        /\ last.op \in GenerationOps /\ last.code = 200
        /\ last'.op \in GenerationOps /\ last'.code = 200
        /\ last'.cls = last.cls /\ last'.iso = last.iso /\ last'.sy = last.sy)
        => sessions' = sessions]_vars

C10_Witness ==
    /\ prev.op = "generate" /\ prev.code = 200
    /\ last.op = "generate" /\ last.code = 200
    /\ last.cls = prev.cls /\ last.iso = prev.iso /\ last.sy = prev.sy
    /\ \E s \in sessions : s.class_id = last.cls /\ s.id > 3


\* the operations that insert sessions
SessionInsertingOps == {"generate", "weekday", "sessions", "student", "studentWeekday"}

IsoWeekdayOf(day) == IF (day + 4) % 7 = 0 THEN 7 ELSE (day + 4) % 7

\* the days from 1 September of year sy to 14 July of the next that fall on
\* ISO weekday w
SchoolYearDays(sy, w) ==
    {d \in toDate(sy * 10000 + 901)..toDate((sy + 1) * 10000 + 714) : IsoWeekdayOf(d) = w}

DatesOfClass(tbl, c) == {s.date : s \in {q \in tbl : q.class_id = c}}

\* C11: generation, weekday reassignment and bulk insertion keep every
\* session that existed, with its status and note; a successful generation
\* leaves a session at every date of its weekday, and after generating for
\* W1 then W2 the dates of both are there.
C11_GenerationAdditive ==
    [][(Served /\ last'.op \in SessionInsertingOps)
        => /\ sessions \subseteq sessions'
           /\ (last'.op \in GenerationOps /\ last'.code = 200)
                => SchoolYearDays(last'.sy, last'.iso)
                       \subseteq DatesOfClass(sessions', last'.cls)
           /\ (/\ last'.op \in GenerationOps /\ last'.code = 200
               /\ last.op \in GenerationOps /\ last.code = 200
               /\ last.cls = last'.cls /\ last.sy = last'.sy)
                => SchoolYearDays(last.sy, last.iso) \cup SchoolYearDays(last'.sy, last'.iso)
                       \subseteq DatesOfClass(sessions', last'.cls)]_vars

C11_Witness ==
    /\ prev.op \in GenerationOps /\ prev.code = 200
    /\ last.op \in GenerationOps /\ last.code = 200
    /\ last.cls = prev.cls /\ last.sy = prev.sy /\ last.iso # prev.iso
    /\ Cardinality(SchoolYearDays(prev.sy, prev.iso)) >= 45
    /\ SchoolYearDays(prev.sy, prev.iso) \cup SchoolYearDays(last.sy, last.iso)
           \subseteq DatesOfClass(sessions, last.cls)


MarksOfPair(att, student, session) ==
    {a \in att : a.student_id = student /\ a.session_id = session}

\* C12: after a successful attendance upsert there is exactly one mark for
\* its (student, session) pair, carrying the status and comment of that
\* upsert; the marks of the other pairs are as they were, and no pair ever
\* has two marks.
C12_LastWriteWins ==
    [][(Served /\ last'.op = "attendance" /\ last'.code = 200)
        => /\ Cardinality(MarksOfPair(attendances', last'.stu, last'.sid)) = 1
           /\ \A a \in MarksOfPair(attendances', last'.stu, last'.sid) :
                /\ a.status = last'.status
                /\ a.comment = IF last'.status = "excused" THEN trim(last'.comment)
                               ELSE NullComment
           /\ attendances' \ MarksOfPair(attendances', last'.stu, last'.sid)
                = attendances \ MarksOfPair(attendances, last'.stu, last'.sid)
           /\ \A a \in attendances' : \A b \in attendances' :
                (a.student_id = b.student_id /\ a.session_id = b.session_id) => a = b]_vars

\* two successful upsert in a row, the second on the pair of the first
C12_Witness ==
    /\ prev.op = "attendance" /\ prev.code = 200
    /\ last.op = "attendance" /\ last.code = 200
    /\ attendances = {[student_id |-> last.stu, session_id |-> last.sid,
                       status |-> "absent", comment |-> NullComment]}


\* this step served an attendance request past the access guard, read up to
\* a known status
AttendanceWithKnownStatus ==
    /\ Served /\ last'.op = "attendance" /\ last'.code \notin {401, 403}
    /\ last'.status \in AttendanceStatuses

\* the session exists and is not cancelled, holiday or vacation
Pointable(tbl, x) == \E s \in tbl : s.id = x /\ s.status \notin NonPointable

\* C13: an excused upsert whose comment is null, empty or all spaces is
\* answered 400 and writes nothing; a present or absent upsert for an
\* existing student and a pointable session is answered 200, whatever
\* comment it carries, and its mark has a null comment.
C13_CommentRule ==
    [][AttendanceWithKnownStatus
        => /\ (last'.status = "excused" /\ ~NotBlank(last'.comment))
                => last'.code = 400 /\ attendances' = attendances
           /\ (/\ last'.status \in {"present", "absent"}
               /\ \E st \in students : st.id = last'.stu
               /\ Pointable(sessions, last'.sid))
                => /\ last'.code = 200
                   /\ [student_id |-> last'.stu, session_id |-> last'.sid,
                       status |-> last'.status, comment |-> NullComment] \in attendances']_vars

\* a present mark was stored without the comment its request carried
C13_Witness ==
    /\ last.op = "attendance" /\ last.code = 200 /\ last.status = "present"
    /\ NotBlank(last.comment)
    /\ [student_id |-> last.stu, session_id |-> last.sid,
        status |-> "present", comment |-> NullComment] \in attendances


\* C14: every stored attendance mark has status present, absent or excused;
\* an excused mark has a comment that is neither null nor empty, any other
\* mark has a null comment.
C14_MarksWellFormed ==
    \A a \in attendances :
        /\ a.status \in AttendanceStatuses
        /\ a.status = "excused" => a.comment # NullComment /\ a.comment # <<>>
        /\ a.status # "excused" => a.comment = NullComment

\* an excused mark holds the trimmed comment of its request
C14_Witness ==
    /\ last.op = "attendance" /\ last.code = 200 /\ last.comment = <<" ", "m">>
    /\ [student_id |-> last.stu, session_id |-> last.sid,
        status |-> "excused", comment |-> <<"m">>] \in attendances


\* C15: the dates the calendar generator returns lie within the window, fall
\* on the weekday asked for, and are strictly increasing.
C15_EnumerationSound ==
    calc.fn = "enumerateDatesByWeekday"
        => /\ \A i \in 1..Len(calc.dates) :
                /\ calc.start <= toDate(calc.dates[i]) /\ toDate(calc.dates[i]) <= calc.end
                /\ IsoWeekdayOf(toDate(calc.dates[i])) = calc.iso
                /\ to_char(toDate(calc.dates[i])) = calc.dates[i]
           /\ \A i \in 1..(Len(calc.dates) - 1) : calc.dates[i] < calc.dates[i + 1]

\* a school year of Sundays, across the end of a leap-year February
C15_Witness ==
    /\ calc.fn = "enumerateDatesByWeekday" /\ calc.iso = 7
    /\ calc.start = toDate(20230901) /\ calc.end = toDate(20240714)
    /\ Len(calc.dates) = 46
    /\ \E i \in 1..Len(calc.dates) : calc.dates[i] = 20240303


FrenchDays == <<"lundi", "mardi", "mercredi", "jeudi", "vendredi", "samedi", "dimanche">>

\* C16: normalization maps the integers 1..7 to themselves, 0 (Sunday in the
\* JS numbering) to 7, the day names lundi..dimanche to 1..7, and anything
\* else to the null sentinel.
C16_NormalizationTable ==
    calc.fn = "normalizeToIsoWeekday"
        => /\ (calc.wd.k = "num" /\ calc.wd.n \in 1..7) => calc.n = calc.wd.n
           /\ (calc.wd.k = "num" /\ calc.wd.n = 0) => calc.n = 7
           /\ (calc.wd.k = "num" /\ calc.wd.n \notin 0..7) => calc.n = NULL
           /\ \A i \in 1..7 : (calc.wd.k = "str" /\ calc.wd.s = FrenchDays[i]) => calc.n = i
           /\ (calc.wd.k = "str" /\ calc.wd.s \in {"monday", "3", ""}) => calc.n = NULL
           /\ calc.wd.k = "absent" => calc.n = NULL


WeekdayOps == {"generate", "weekday", "student", "studentWeekday"}

\* a weekday that was supplied and is none: a number outside 0..7, or a
\* string that is no day name
InvalidWeekday(wd) ==
    \/ wd.k = "num" /\ wd.n \notin 0..7
    \/ wd.k = "str" /\ \A i \in 1..7 : FrenchDays[i] # toLowerCase(wd.s)

\* C17: a generation, class weekday reassignment, student creation or
\* student weekday update that carries an invalid weekday is answered 400
\* and changes nothing in the store.
C17_InvalidWeekdayRejected ==
    [][(Served /\ last'.op \in WeekdayOps /\ InvalidWeekday(last'.wd))
        => last'.code = 400 /\ UNCHANGED store]_vars


\* the identifier a guarded request names its target by
TargetId(r) == IF r.op \in {"status", "attendance"} THEN r.sid ELSE r.cls

\* C18: a guarded request of any subject the route admits, admin included,
\* whose class id or session id is missing or no integer is answered 400,
\* and no statement of it reaches the store.
C18_BadIdRejectedFirst ==
    [][(/\ Served /\ last'.op \in GuardedOps
        /\ last'.cred \in DOMAIN users /\ users[last'.cred] \in {"prof", "admin"}
        /\ TargetId(last') = NaN)
        => last'.code = 400 /\ ~last'.wrote /\ UNCHANGED store]_vars


\* the subject holds a valid token but not the rights the request needs:
\* a role the route does not admit, or a non-admin who is neither owner nor
\* co-manager of the class aimed at
InsufficientRights(r) ==
    /\ r.cred \in DOMAIN users
    /\ \/ users[r.cred] \notin {"prof", "admin"}
       \/ /\ users[r.cred] # "admin"
          /\ TargetClass(r) # NULL
          /\ ~IsOwnerOrCoManager(TargetClass(r), r.cred)

\* C19: a guarded request without a token, or with a token that fails
\* verification, is answered 401; one with a valid token and insufficient
\* rights is answered 403.
C19_AuthSignalsDistinct ==
    [][(Served /\ last'.op \in GuardedOps)
        => /\ last'.cred \notin DOMAIN users => last'.code = 401
           /\ InsufficientRights(last') => last'.code = 403]_vars


\* slot p sends its response in this step
Completes(p) == inflight[p].pc # "idle" /\ inflight'[p].pc = "idle"

\* the dates a session-inserting request asks for
RequestedDates(r) ==
    IF r.op = "sessions" THEN {toDate(r.dates[i]) : i \in DOMAIN r.dates}
    ELSE IF r.op \in GenerationOps /\ r.iso # NULL THEN SchoolYearDays(r.sy, r.iso)
    ELSE {}

RequestedInFlight(c) ==
    UNION {RequestedDates(inflight[p].req) :
               p \in {q \in Slots : inflight[q].pc # "idle" /\ inflight[q].req.cls = c}}

OneSessionPerClassAndDate ==
    \A c \in DOMAIN classes :
        Cardinality(SessionsOfClass(sessions, c)) = Cardinality(DatesOfClass(sessions, c))

OneMarkPerStudentAndSession ==
    Cardinality(attendances)
        = Cardinality({<<a.student_id, a.session_id>> : a \in attendances})

\* C20: whatever the interleaving of the statements of concurrent generation,
\* weekday reassignment, bulk insertion and attendance requests, every state
\* holds at most one session per (class, date) and one mark per (student,
\* session); no request is answered with a store error; every inserting
\* request is answered 200 with all its dates in the class; and a step keeps
\* the sessions there were and adds only dates that a request in flight asks
\* for.
C20_ConcurrentInsertsResolve ==
    /\ [](OneSessionPerClassAndDate /\ OneMarkPerStudentAndSession)
    /\ [][/\ sessions \subseteq sessions'
          /\ \A c \in DOMAIN classes :
                DatesOfClass(sessions', c) \ DatesOfClass(sessions, c)
                    \subseteq RequestedInFlight(c)
          /\ \A p \in Slots : Completes(p) =>
                /\ last'.code # 500
                /\ last'.op \in {"generate", "weekday", "sessions"}
                     => /\ last'.code = 200
                        /\ RequestedDates(last') \subseteq DatesOfClass(sessions', last'.cls)
         ]_vars

\* two bulk insertions raced for a date: both are answered, neither
\* generation nor weekday reassignment ran, and an insertion proposed a row
\* the store skipped
C20_Witness ==
    /\ \A p \in Slots : inflight[p].pc = "idle"
    /\ last.op = "sessions" /\ last.code = 200 /\ last.wrote
    /\ classes[1].weekday = NULL
    /\ session_seq > Cardinality(sessions)
    /\ OneSessionPerClassAndDate
    /\ RequestedDates(last) \subseteq DatesOfClass(sessions, 1)


\* the operations that answer with the sessions of the class
ListingOps == {"generate", "weekday", "sessions"}

\* the dates of a response, in the order of the response
BodyDates(r) ==
    IF r.op = "sessions" THEN r.body ELSE [i \in DOMAIN r.body |-> r.body[i].date]

\* the dates of the sessions class c has in tbl, ascending, each once
StoredDates(tbl, c) ==
    LET listing == ListSessions(tbl, c) IN [i \in DOMAIN listing |-> listing[i].date]

\* C21: a successful generation, weekday reassignment or bulk insertion
\* answers with the dates of all the sessions the class has after it, in
\* ascending order, each date once.
C21_ResponseListsStoredSessions ==
    [][(Served /\ last'.op \in ListingOps /\ last'.code = 200)
        => BodyDates(last') = StoredDates(sessions', last'.cls)]_vars


\* slot p holds a forced status change that has deleted the marks of its
\* session and has not yet written the status
DeletedNotYetUpdated(p) ==
    /\ inflight[p].req.op = "status" /\ inflight[p].pc = "update"
    /\ inflight[p].req.force /\ inflight[p].n > 0

\* C22: in no state have the marks of a session been deleted by a forced
\* status change while the session still carries the status it had.
C22_ForcedTransitionAtomic ==
    \A p \in Slots : DeletedNotYetUpdated(p) =>
        \A s \in SessionRows(inflight[p].id) :
            MarksOf(attendances, s.id) = {} => s.status = inflight[p].req.status


\* the operations that change the store
MutationOps == GuardedOps \cup {"student", "studentWeekday", "studentDelete"}

StudentExists(x) == \E st \in students : st.id = x

\* the request carries the identifier and it is an integer
Named(x) == IsInteger(x) /\ x # UnreadInt

\* an identifier of the request is an integer that names no row
Unresolved(r) ==
    \/ r.op \in {"status", "attendance"} /\ Named(r.sid) /\ ~SessionExists(sessions, r.sid)
    \/ r.op \in {"attendance", "studentWeekday", "studentDelete"}
         /\ Named(r.stu) /\ ~StudentExists(r.stu)
    \/ r.op \in {"extra", "generate", "weekday", "sessions", "student"}
         /\ Named(r.cls) /\ r.cls \notin DOMAIN classes

\* the subject passes authentication and the role check of the route, and
\* is authorized for the class aimed at when there is one
AdmittedSubject(r) ==
    r.op \in GuardedOps =>
        /\ r.cred \in DOMAIN users /\ users[r.cred] \in {"prof", "admin"}
        /\ TargetClass(r) # NULL => AuthorizedFor(r, TargetClass(r))

\* C23: a mutation by an admitted subject, admin included, whose session,
\* student or class id names no row is answered 404 (400 for an attendance
\* mark) and leaves every table as it was.
C23_UnresolvedIdIsNotFound ==
    [][(Served /\ last'.op \in MutationOps /\ AdmittedSubject(last') /\ Unresolved(last'))
        => /\ last'.code = 404 \/ (last'.op = "attendance" /\ last'.code = 400)
           /\ UNCHANGED <<classes, class_users, students, sessions, attendances>>]_vars


\* the days of the window of the call that fall on the weekday asked for
WindowDaysOnWeekday == {d \in calc.start..calc.end : IsoWeekdayOf(d) = calc.iso}

\* C24: the calendar generator starts at the earliest day of the window on
\* the weekday asked for, at most 6 days after the start, steps by exactly 7
\* days, and returns every day of the window on that weekday; it returns
\* nothing only when the window has no such day.
C24_EnumerationComplete ==
    calc.fn = "enumerateDatesByWeekday"
        => /\ calc.dates # <<>> =>
                /\ toDate(calc.dates[1]) \in calc.start..(calc.start + 6)
                /\ \A d \in WindowDaysOnWeekday : toDate(calc.dates[1]) <= d
           /\ \A i \in 1..(Len(calc.dates) - 1) :
                toDate(calc.dates[i + 1]) = toDate(calc.dates[i]) + 7
           /\ WindowDaysOnWeekday = {toDate(calc.dates[i]) : i \in 1..Len(calc.dates)}
           /\ calc.dates = <<>> <=> WindowDaysOnWeekday = {}

\* a school year of Thursdays that starts on a Friday: the first date is six
\* days after the start
C24_Witness ==
    /\ calc.fn = "enumerateDatesByWeekday" /\ calc.iso = 4
    /\ calc.start = toDate(20230901) /\ calc.end = toDate(20240714)
    /\ Len(calc.dates) = 45
    /\ toDate(calc.dates[1]) = calc.start + 6


\* the school year a weekday reassignment works on: the one the caller
\* supplies, else the one that started on the last 1 September
YearOfReassignment(r) ==
    IF r.startYear \notin {NULL, UnreadInt} THEN r.startYear
    ELSE IF now[2] >= 9 THEN now[1] ELSE now[1] - 1

\* C25: a successful weekday reassignment of class C to W for school year Y
\* leaves W as the stored weekday of C and a session of C on every day of
\* weekday W from 1 September Y to 14 July Y+1, the new ones scheduled; and
\* whatever its answer, a reassignment that changed the stored weekday has
\* left those sessions.
C25_ReassignmentStoresRuleAndSessions ==
    [][(Served /\ last'.op = "weekday" /\ last'.cls \in DOMAIN classes)
        => LET C == last'.cls
               Y == YearOfReassignment(last')
           IN  /\ last'.code = 200 =>
                    /\ last'.iso \in 1..7
                    /\ classes'[C].weekday = last'.iso
                    /\ SchoolYearDays(Y, last'.iso) \subseteq DatesOfClass(sessions', C)
                    /\ \A s \in sessions' \ sessions :
                         s.class_id = C /\ s.status = "scheduled"
               /\ classes'[C].weekday # classes[C].weekday =>
                    SchoolYearDays(Y, classes'[C].weekday)
                        \subseteq DatesOfClass(sessions', C)]_vars


\* the operations guarded through a session
SessionGuardedOps == {"status", "attendance"}

\* C26: a request guarded through session X, by a subject the route admits,
\* is let through exactly when the subject is authorized for the class of X,
\* and it changes no session other than X and no mark of another session.
C26_GuardAndHandlerAgreeOnSession ==
    [][(/\ Served /\ last'.op \in SessionGuardedOps
        /\ last'.cred \in DOMAIN users /\ users[last'.cred] \in {"prof", "admin"}
        /\ SessionExists(sessions, last'.sid))
        => /\ last'.code # 403
                <=> AuthorizedFor(last', ClassOfSession(sessions, last'.sid))
           /\ \A s \in (sessions' \ sessions) \cup (sessions \ sessions') :
                s.id = last'.sid
           /\ \A a \in (attendances' \ attendances) \cup (attendances \ attendances') :
                a.session_id = last'.sid]_vars

\* C27: when requests are served one after the other, no state holds an
\* attendance mark of a session that is cancelled, holiday or vacation.
C27_SequentialMarksOnPointableOnly ==
    ~\E a \in attendances : \E s \in sessions :
        s.id = a.session_id /\ s.status \in NonPointable

\* a mark was recorded, then a forced change to a non-pointable status
\* removed it
C27_Witness ==
    /\ prev.op = "attendance" /\ prev.code = 200
    /\ last.op = "status" /\ last.code = 200 /\ last.force
    /\ last.status \in NonPointable
    /\ attendances = {}
    /\ \E s \in sessions : s.status = last.status


\* the responses that refuse a request
RefusalCodes == {400, 403, 404, 409}

\* C28: a request answered 400, 403, 404 or 409 leaves the classes, the
\* co-manager links, the students, the sessions and the attendance marks as
\* they were.
C28_RefusalsChangeNothing ==
    [][(Served /\ last'.code \in RefusalCodes)
        => UNCHANGED <<classes, class_users, students, sessions, attendances>>]_vars

\* an extra session was refused for a date the class already has, after the
\* insertion was attempted
C28_Witness ==
    /\ last.op = "extra" /\ last.code = 409 /\ last.wrote
    /\ \E s \in sessions : s.class_id = last.cls /\ s.date = toDate(last.date)


\* C29: every attendance mark pairs a student with a session of the class
\* the student is enrolled in.
C29_MarkWithinStudentsClass ==
    \A a \in attendances :
        \A st \in students : \A s \in sessions :
            (st.id = a.student_id /\ s.id = a.session_id) => st.class_id = s.class_id

====
